---------------------------- MODULE Spec2Model ----------------------------
(***************************************************************************)
(* Model of the multi-key load balancer (backend/app/utils/load_balancer.py)*)
(* and of the callers that drive it (backend/app/api/image.py).             *)
(*                                                                         *)
(* Three specifications share the state:                                   *)
(*   Spec       a LoadBalancer of up to two keys driven through its public *)
(*              operations, in any order, while the clock advances;        *)
(*   SpecThree  a LoadBalancer of three keys driven the same way at the    *)
(*              start and in one later minute;                             *)
(*   SpecCaller the LoadBalancer driven only by generate_image_with_retry  *)
(*              coroutines, scheduled cooperatively (a coroutine runs      *)
(*              from one await to the next without interleaving); the      *)
(*              clock moves by their backoff sleeps.                       *)
(*                                                                         *)
(* A method that mutates its object is an operator from the object before  *)
(* to the object after (and the value returned); the statements of a       *)
(* method are operators applied one to the result of the other.            *)
(***************************************************************************)
EXTENDS Integers, Sequences, FiniteSets, TLC

(***************************************************************************)
(* Program constants                                                       *)
(***************************************************************************)
MINUTE == 60
DAY == 86400
COOLDOWN == 300
IPM == 2
IPD == 400
FAILURE_LIMIT == 3
max_retries == 3
base_delay == 1
BATCH_LIMIT == 10

(***************************************************************************)
(* Bounds of the model                                                     *)
(***************************************************************************)
\* the clock when the process starts (six minutes before a day boundary)
T0 == 172440
\* outcome reports (record_success, record_failure) made in one behaviour
MaxReports == 4
\* largest count asked of get_multiple_available_keys
MaxCount == 3
\* largest batch_size of a parallel batch that is gathered
MaxBatch == 3

\* The instants at which the program is observed to run: the start, the end
\* of the cooldown of a failure at the start and one second past it (both in
\* one minute window), and the first second of the next day.
TimeLine == {T0, T0 + COOLDOWN, T0 + COOLDOWN + 1, T0 + 6 * MINUTE}

\* The registries (keys.txt in registration order) the model is run with.
Registries == {<< >>, <<"k1">>, <<"k1", "k2">>}
ThreeKeys == <<"k1", "k2", "k3">>

\* The registries and the concurrent requests SpecCaller is run with: two
\* requests in flight on one key, or one request on two keys.
CallerScenarios ==
    {[registry |-> <<"k1">>, calls |-> {"c1", "c2"}],
     [registry |-> <<"k1", "k2">>, calls |-> {"c1"}]}

\* What the upstream answers to one request: a status code (200 with a JSON
\* object as body), a timeout of the transport, or another transport error.
Responses == {"200", "429", "401", "500", "timeout", "error"}

\* the status codes among the answers of the upstream, other than 200
StatusCodes == {"429", "401", "500"}

\* An identifier that is in no registry.
UnknownKey == "zz"

\* Usage of a key today at the moment the model starts observing it.
InitDay == {0, IPD - 1}

None == "None"

VARIABLES
    registry,         \* api_keys, in registration order (dict insertion order)
    keys,             \* LoadBalancer.keys : identifier -> APIKeyInfo
    last_used_index,  \* LoadBalancer.last_used_index
    now,              \* time.time()
    failsSince,       \* per key: record_failure calls since its last record_success
    streak,           \* the same, also restarted when the key leaves Failed by cooldown
    reports,          \* outcome reports made so far
    calls             \* the generate_image_with_retry coroutines

\* failsSince, streak and reports observe the operations of Spec and
\* SpecThree; under SpecCaller each call counts its own reports
vars == <<registry, keys, last_used_index, now, failsSince, streak, reports, calls>>

Range(s) == {s[i] : i \in 1..Len(s)}

Min(a, b) == IF a < b THEN a ELSE b

(***************************************************************************)
(* APIKeyInfo                                                              *)
(***************************************************************************)
\* dataclass defaults
APIKeyInfo ==
    [status |-> "active", requests_per_minute |-> 0, requests_per_day |-> 0,
     last_request_time |-> 0, last_reset_minute |-> 0, last_reset_day |-> 0,
     consecutive_failures |-> 0, last_failure_time |-> 0]

\* mutant: the minute counter restarts without the marker of the minute
ResetMinute_without_marker(r, t) ==
    IF t \div MINUTE # r.last_reset_minute
    THEN [r EXCEPT !.requests_per_minute = 0]
    ELSE r

\* lines 33-36: the minute counter restarts in a new minute
ResetMinute(r, t) ==
    IF t \div MINUTE # r.last_reset_minute
    THEN [r EXCEPT !.requests_per_minute = 0, !.last_reset_minute = t \div MINUTE]
    ELSE r

\* lines 38-41: the day counter restarts in a new day
ResetDay(r, t) ==
    IF t \div DAY # r.last_reset_day
    THEN [r EXCEPT !.requests_per_day = 0, !.last_reset_day = t \div DAY]
    ELSE r

\* mutant: the cooldown ends at 300 seconds, not after them
EndCooldown_at_cooldown(r, t) ==
    IF r.status = "failed" /\ t - r.last_failure_time >= COOLDOWN
    THEN [r EXCEPT !.status = "active", !.consecutive_failures = 0]
    ELSE r

\* lines 43-47: a Failed key is Active again after the cooldown
EndCooldown(r, t) ==
    IF r.status = "failed" /\ t - r.last_failure_time > COOLDOWN
    THEN [r EXCEPT !.status = "active", !.consecutive_failures = 0]
    ELSE r

reset_counters_if_needed(r, t) == EndCooldown(ResetDay(ResetMinute(r, t), t), t)

\* mutant: a key is refused only above the per-minute limit
CheckLimits_above_limit(r) ==
    IF r.status = "failed"
    THEN [ok |-> FALSE, rec |-> r]
    ELSE IF r.requests_per_minute > IPM \/ r.requests_per_day >= IPD
         THEN [ok |-> FALSE, rec |-> [r EXCEPT !.status = "rate_limited"]]
         ELSE [ok |-> TRUE, rec |-> r]

\* mutant: a Failed key is not refused
CheckLimits_ignoring_failed(r) ==
    IF r.requests_per_minute >= IPM \/ r.requests_per_day >= IPD
    THEN [ok |-> FALSE, rec |-> [r EXCEPT !.status = "rate_limited"]]
    ELSE [ok |-> TRUE, rec |-> r]

\* lines 53-61: the answer of can_make_request and the record it leaves
CheckLimits(r) ==
    IF r.status = "failed"
    THEN [ok |-> FALSE, rec |-> r]
    ELSE IF r.requests_per_minute >= IPM \/ r.requests_per_day >= IPD
         THEN [ok |-> FALSE, rec |-> [r EXCEPT !.status = "rate_limited"]]
         ELSE [ok |-> TRUE, rec |-> r]

\* can_make_request mutates the record: the result is the answer and the record
can_make_request(r, t) == CheckLimits(reset_counters_if_needed(r, t))

\* mutant: a success does not end the run of failures
CountRequest_keeping_failures(r, t) ==
    [r EXCEPT !.requests_per_minute = @ + 1, !.requests_per_day = @ + 1,
              !.last_request_time = t]

\* lines 66-69
CountRequest(r, t) ==
    [r EXCEPT !.requests_per_minute = @ + 1, !.requests_per_day = @ + 1,
              !.last_request_time = t, !.consecutive_failures = 0]

\* mutant: the status of a Failed key is not recomputed
StatusByLimits_keeping_failed(r) ==
    IF r.status = "failed" THEN r
    ELSE IF r.requests_per_minute >= IPM \/ r.requests_per_day >= IPD
         THEN [r EXCEPT !.status = "rate_limited"]
         ELSE [r EXCEPT !.status = "active"]

\* lines 72-75
StatusByLimits(r) ==
    IF r.requests_per_minute >= IPM \/ r.requests_per_day >= IPD
    THEN [r EXCEPT !.status = "rate_limited"]
    ELSE [r EXCEPT !.status = "active"]

record_request(r, t) == StatusByLimits(CountRequest(reset_counters_if_needed(r, t), t))

\* mutant: a key fails only after more than three failures
key_record_failure_late(r, t) ==
    IF r.consecutive_failures + 1 > FAILURE_LIMIT
    THEN [r EXCEPT !.consecutive_failures = @ + 1, !.last_failure_time = t,
                   !.status = "failed"]
    ELSE [r EXCEPT !.consecutive_failures = @ + 1, !.last_failure_time = t]

\* APIKeyInfo.record_failure
key_record_failure(r, t) ==
    IF r.consecutive_failures + 1 >= FAILURE_LIMIT
    THEN [r EXCEPT !.consecutive_failures = @ + 1, !.last_failure_time = t,
                   !.status = "failed"]
    ELSE [r EXCEPT !.consecutive_failures = @ + 1, !.last_failure_time = t]

(***************************************************************************)
(* LoadBalancer                                                            *)
(***************************************************************************)
\* self.keys after __init__
NewKeys(reg) == [k \in Range(reg) |-> APIKeyInfo]

\* the list comprehension of lines 95-98 / 115-118 calls can_make_request on
\* every record: chk[k] is its answer and the record it leaves
CheckAll(ks, t) == [k \in DOMAIN ks |-> can_make_request(ks[k], t)]

\* the records after the comprehension
Refreshed(chk) == [k \in DOMAIN chk |-> chk[k].rec]

\* the keys the comprehension keeps, in registration order
Available(chk) == SelectSeq(registry, LAMBDA k : chk[k].ok)

\* mutant: the requests of the minute are compared before those of the day
UsageLess_minute_first(ks, a, b) ==
    \/ ks[a].requests_per_minute < ks[b].requests_per_minute
    \/ /\ ks[a].requests_per_minute = ks[b].requests_per_minute
       /\ ks[a].requests_per_day < ks[b].requests_per_day

\* sort key of lines 105 / 125
UsageLess(ks, a, b) ==
    \/ ks[a].requests_per_day < ks[b].requests_per_day
    \/ /\ ks[a].requests_per_day = ks[b].requests_per_day
       /\ ks[a].requests_per_minute < ks[b].requests_per_minute

\* list.sort is stable: insertion after the last element that is not greater
RECURSIVE InsertSorted(_, _, _)
InsertSorted(ks, s, x) ==
    IF s = << >> THEN <<x>>
    ELSE IF UsageLess(ks, x, Head(s)) THEN <<x>> \o s
    ELSE <<Head(s)>> \o InsertSorted(ks, Tail(s), x)

RECURSIVE SortByUsage(_, _)
SortByUsage(ks, s) ==
    IF s = << >> THEN << >>
    ELSE InsertSorted(ks, SortByUsage(ks, SubSeq(s, 1, Len(s) - 1)), s[Len(s)])

\* available_keys after the sort
SortedAvailable(chk) == SortByUsage(Refreshed(chk), Available(chk))

\* mutant: the empty list is not handled (the modulo raises ZeroDivisionError)
SelectOne_unguarded(ks, available_keys, idx) ==
    IF Len(available_keys) = 0
    THEN [ret |-> << >>, raised |-> TRUE, keys |-> ks, idx |-> idx]
    ELSE [ret |-> <<available_keys[(idx % Len(available_keys)) + 1]>>,
          raised |-> FALSE, keys |-> ks,
          idx |-> (idx + 1) % Len(available_keys)]

\* mutant: the cursor is not advanced
SelectOne_stuck(ks, available_keys, idx) ==
    IF Len(available_keys) = 0
    THEN [ret |-> << >>, raised |-> FALSE, keys |-> ks, idx |-> idx]
    ELSE [ret |-> <<available_keys[(idx % Len(available_keys)) + 1]>>,
          raised |-> FALSE, keys |-> ks,
          idx |-> idx % Len(available_keys)]

\* lines 100-111, on the refreshed records ks and the sorted list
SelectOne(ks, available_keys, idx) ==
    IF Len(available_keys) = 0
    THEN [ret |-> << >>, raised |-> FALSE, keys |-> ks, idx |-> idx]
    ELSE [ret |-> <<available_keys[(idx % Len(available_keys)) + 1]>>,
          raised |-> FALSE, keys |-> ks,
          idx |-> (idx + 1) % Len(available_keys)]

SelectOneOf(chk, idx) == SelectOne(Refreshed(chk), SortedAvailable(chk), idx)

\* result: what is returned (<< >> for None), whether an exception was raised
\* instead, and the records and the cursor after
get_available_key(ks, idx, t) == SelectOneOf(CheckAll(ks, t), idx)

\* the loop of lines 129-137, from iteration i of limit, with the records
\* threaded through the re-check of each candidate: CollectKeys is the loop
\* header, CheckCandidate lines 130-133, TakeCandidate lines 134-137 with the
\* answer c of the re-check of the candidate k
RECURSIVE CollectKeys(_, _, _, _, _, _, _, _)
RECURSIVE CheckCandidate(_, _, _, _, _, _, _, _, _)
RECURSIVE TakeCandidate(_, _, _, _, _, _, _, _, _, _)
TakeCandidate(ks, avail, idx, t, count, limit, i, selected, k, c) ==
    IF c.ok
    THEN IF Len(selected) + 1 >= count
         THEN [ret |-> Append(selected, k), keys |-> [ks EXCEPT ![k] = c.rec]]
         ELSE CollectKeys([ks EXCEPT ![k] = c.rec], avail, idx, t, count, limit,
                          i + 1, Append(selected, k))
    ELSE CollectKeys([ks EXCEPT ![k] = c.rec], avail, idx, t, count, limit,
                     i + 1, selected)

CheckCandidate(ks, avail, idx, t, count, limit, i, selected, k) ==
    TakeCandidate(ks, avail, idx, t, count, limit, i, selected, k,
                  can_make_request(ks[k], t))

CollectKeys(ks, avail, idx, t, count, limit, i, selected) ==
    IF i >= limit THEN [ret |-> selected, keys |-> ks]
    ELSE CheckCandidate(ks, avail, idx, t, count, limit, i, selected,
                        avail[((idx + i) % Len(avail)) + 1])

\* mutant: the cursor moves by one, whatever the number of keys selected
ReturnSelected_by_one(c, idx, n) ==
    [ret |-> c.ret, raised |-> FALSE, keys |-> c.keys, idx |-> (idx + 1) % n]

\* lines 139-140: the cursor moves by the number of keys selected
ReturnSelected(c, idx, n) ==
    [ret |-> c.ret, raised |-> FALSE, keys |-> c.keys,
     idx |-> (idx + Len(c.ret)) % n]

\* mutant: the walk is not limited to twice the eligible keys
SelectMany_unlimited(ks, available_keys, idx, t, count) ==
    IF Len(available_keys) = 0
    THEN [ret |-> << >>, raised |-> FALSE, keys |-> ks, idx |-> idx]
    ELSE ReturnSelected(CollectKeys(ks, available_keys, idx, t, count, count,
                                    0, << >>),
                        idx, Len(available_keys))

\* lines 120-140, on the refreshed records ks and the sorted list
SelectMany(ks, available_keys, idx, t, count) ==
    IF Len(available_keys) = 0
    THEN [ret |-> << >>, raised |-> FALSE, keys |-> ks, idx |-> idx]
    ELSE ReturnSelected(CollectKeys(ks, available_keys, idx, t, count,
                                    Min(count, Len(available_keys) * 2),
                                    0, << >>),
                        idx, Len(available_keys))

SelectManyOf(chk, idx, t, count) ==
    SelectMany(Refreshed(chk), SortedAvailable(chk), idx, t, count)

get_multiple_available_keys(ks, idx, t, count) ==
    SelectManyOf(CheckAll(ks, t), idx, t, count)

record_success(ks, api_key, t) ==
    IF api_key \in DOMAIN ks
    THEN [ks EXCEPT ![api_key] = record_request(ks[api_key], t)]
    ELSE ks

\* mutant: a failure of an unregistered identifier is held against every key
record_failure_any(ks, api_key, t) ==
    IF api_key \in DOMAIN ks
    THEN [ks EXCEPT ![api_key] = key_record_failure(ks[api_key], t)]
    ELSE [k \in DOMAIN ks |-> key_record_failure(ks[k], t)]

record_failure(ks, api_key, t) ==
    IF api_key \in DOMAIN ks
    THEN [ks EXCEPT ![api_key] = key_record_failure(ks[api_key], t)]
    ELSE ks

(***************************************************************************)
(* State after construction, and the operations of the LoadBalancer        *)
(***************************************************************************)
\* A coroutine of generate_image_with_retry: where it is, the attempt of its
\* loop, the key of the request in flight, how it ended (the HTTPException it
\* raised), and what it did: the answers it received, the backoff sleeps it
\* made, the upstream requests it issued and its reports to the LoadBalancer.
NewCall ==
    [pc |-> "idle", attempt |-> 0, api_key |-> None, outcome |-> "pending",
     status_code |-> None, detail |-> None, answers |-> << >>, sleeps |-> << >>,
     requests |-> 0, failures |-> 0, successes |-> 0, wake_at |-> 0]

\* A key that has answered d requests today, the last one at T0
UsedKey(d) ==
    IF d = 0 THEN APIKeyInfo
    ELSE [APIKeyInfo EXCEPT !.requests_per_minute = 1,
                            !.requests_per_day = d,
                            !.last_request_time = T0,
                            !.last_reset_minute = T0 \div MINUTE,
                            !.last_reset_day = T0 \div DAY]

\* LoadBalancer.__init__ for the registry reg, whose first key has answered
\* d requests today; cs are the requests that will arrive
InitLB(reg, d, cs) ==
    /\ registry = reg
    /\ keys = [k \in Range(reg) |-> IF k = reg[1] THEN UsedKey(d) ELSE APIKeyInfo]
    /\ last_used_index = 0
    /\ now = T0
    /\ failsSince = [k \in Range(reg) |-> 0]
    /\ streak = [k \in Range(reg) |-> 0]
    /\ reports = 0
    /\ calls = [c \in cs |-> NewCall]

\* keys that were Failed before an operation and are not after it
Reverted(ks, ks1) ==
    {k \in DOMAIN ks : ks[k].status = "failed" /\ ks1[k].status # "failed"}

StreakAfter(ks1) ==
    [k \in DOMAIN streak |-> IF k \in Reverted(keys, ks1) THEN 0 ELSE streak[k]]

\* the clock moves to a later instant
Advance ==
    /\ \E t \in TimeLine : t > now /\ now' = t
    /\ UNCHANGED <<registry, keys, last_used_index, failsSince, streak, reports, calls>>

\* the LoadBalancer after a selection with the result r
Selected(r) ==
    /\ keys' = r.keys
    /\ last_used_index' = r.idx
    /\ streak' = StreakAfter(r.keys)
    /\ UNCHANGED <<registry, now, failsSince, reports, calls>>

GetAvailableKey == Selected(get_available_key(keys, last_used_index, now))

GetMultipleAvailableKeys(count) ==
    Selected(get_multiple_available_keys(keys, last_used_index, now, count))

\* a report on an unregistered identifier is not counted against the bound
Counted(api_key) == IF api_key \in DOMAIN keys THEN 1 ELSE 0

RecordSuccess(api_key) ==
    /\ reports + Counted(api_key) <= MaxReports
    /\ keys' = record_success(keys, api_key, now)
    /\ reports' = reports + Counted(api_key)
    /\ failsSince' = [k \in DOMAIN failsSince |->
                        IF k = api_key THEN 0 ELSE failsSince[k]]
    /\ streak' = [k \in DOMAIN streak |-> IF k = api_key THEN 0 ELSE streak[k]]
    /\ UNCHANGED <<registry, last_used_index, now, calls>>

RecordFailure(api_key) ==
    /\ reports + Counted(api_key) <= MaxReports
    /\ keys' = record_failure(keys, api_key, now)
    /\ reports' = reports + Counted(api_key)
    /\ failsSince' = [k \in DOMAIN failsSince |->
                        IF k = api_key THEN failsSince[k] + 1 ELSE failsSince[k]]
    /\ streak' = [k \in DOMAIN streak |->
                    IF k = api_key THEN streak[k] + 1 ELSE streak[k]]
    /\ UNCHANGED <<registry, last_used_index, now, calls>>

Ids == Range(registry) \cup {UnknownKey}

Init == \E reg \in Registries, d \in InitDay : InitLB(reg, d, {})

Next ==
    \/ Advance
    \/ GetAvailableKey
    \/ \E count \in 1..MaxCount : GetMultipleAvailableKeys(count)
    \/ \E api_key \in Ids : RecordSuccess(api_key)
    \/ \E api_key \in Ids : RecordFailure(api_key)

Spec == Init /\ [][Next]_vars

\* three fresh keys; the clock moves once, from the start to a later minute
\* in which the cooldown of a failure at the start is over
InitThree == InitLB(ThreeKeys, 0, {})

AdvanceThree ==
    /\ now = T0
    /\ now' = T0 + COOLDOWN + 1
    /\ UNCHANGED <<registry, keys, last_used_index, failsSince, streak, reports, calls>>

NextThree ==
    \/ AdvanceThree
    \/ GetAvailableKey
    \/ \E count \in 1..MaxCount : GetMultipleAvailableKeys(count)
    \/ \E api_key \in Ids : RecordSuccess(api_key)
    \/ \E api_key \in Ids : RecordFailure(api_key)

SpecThree == InitThree /\ [][NextThree]_vars

\* get_stats: the keys of each status and the sums of the counters, read
\* from the records as they are
CountStatus(ks, st) == Cardinality({k \in DOMAIN ks : ks[k].status = st})

RECURSIVE SumOf(_, _, _)
SumOfRest(ks, ids, field, k) == ks[k][field] + SumOf(ks, ids \ {k}, field)

SumOf(ks, ids, field) ==
    IF ids = {} THEN 0
    ELSE SumOfRest(ks, ids, field, CHOOSE k \in ids : TRUE)

get_stats(ks) ==
    [total_keys |-> Cardinality(DOMAIN ks),
     active_keys |-> CountStatus(ks, "active"),
     rate_limited_keys |-> CountStatus(ks, "rate_limited"),
     failed_keys |-> CountStatus(ks, "failed"),
     total_requests_today |-> SumOf(ks, DOMAIN ks, "requests_per_day"),
     total_requests_this_minute |-> SumOf(ks, DOMAIN ks, "requests_per_minute")]

\* mutant: the statistics are taken after a refresh of every record
GetStats_refreshing ==
    /\ keys' = Refreshed(CheckAll(keys, now))
    /\ calls' = [calls EXCEPT !["stats"] = get_stats(Refreshed(CheckAll(keys, now)))]
    /\ UNCHANGED <<registry, last_used_index, now, failsSince, streak, reports>>

\* Under SpecStats calls["stats"] is the last answer of get_stats
GetStats ==
    /\ calls' = [calls EXCEPT !["stats"] = get_stats(keys)]
    /\ UNCHANGED <<registry, keys, last_used_index, now, failsSince, streak, reports>>

InitStats == \E reg \in Registries, d \in InitDay : InitLB(reg, d, {"stats"})

NextStats ==
    \/ AdvanceThree
    \/ GetAvailableKey
    \/ \E api_key \in Ids : RecordSuccess(api_key)
    \/ \E api_key \in Ids : RecordFailure(api_key)
    \/ GetStats

SpecStats == InitStats /\ [][NextStats]_vars

(***************************************************************************)
(* generate_image_with_retry                                               *)
(***************************************************************************)
RECURSIVE Pow2(_)
Pow2(n) == IF n = 0 THEN 1 ELSE 2 * Pow2(n - 1)

\* mutant: the delay does not grow with the attempt
Backoff_constant(attempt) == base_delay

\* the argument of asyncio.sleep
Backoff(attempt) == base_delay * Pow2(attempt)

\* raise HTTPException(status_code, detail)
Raise(call, code, detail) ==
    [call EXCEPT !.pc = "done", !.outcome = "failed", !.status_code = code,
                 !.detail = detail, !.api_key = None]

NoKeyDetail == "No available API keys. Please try again later."

ExhaustedDetail == "Failed to generate image after multiple retries"

\* mutant: without a key the call backs off and tries again
PostWith_retrying(call, n, sel) ==
    IF sel.ret = << >>
    THEN [call |-> [call EXCEPT !.pc = "sleeping", !.attempt = n,
                                !.sleeps = Append(@, Backoff(n))],
          keys |-> sel.keys, idx |-> sel.idx]
    ELSE [call |-> [call EXCEPT !.pc = "awaiting", !.attempt = n,
                                !.api_key = sel.ret[1], !.requests = @ + 1],
          keys |-> sel.keys, idx |-> sel.idx]

\* lines 74-92, with the result sel of get_available_key: without a key the
\* call raises before the try, with one the request is posted
PostWith(call, n, sel) ==
    IF sel.ret = << >>
    THEN [call |-> Raise([call EXCEPT !.attempt = n], "503", NoKeyDetail),
          keys |-> sel.keys, idx |-> sel.idx]
    ELSE [call |-> [call EXCEPT !.pc = "awaiting", !.attempt = n,
                                !.api_key = sel.ret[1], !.requests = @ + 1],
          keys |-> sel.keys, idx |-> sel.idx]

\* One iteration of the loop up to its await: the range is exhausted (the
\* raise after the loop), or a key is asked of the LoadBalancer.
BeginAttempt(call, ks, idx, t, n) ==
    IF n >= max_retries
    THEN [call |-> Raise(call, "503", ExhaustedDetail), keys |-> ks, idx |-> idx]
    ELSE PostWith(call, n, get_available_key(ks, idx, t))

\* mutant: the call backs off after its last attempt too
SleepOrGoOn_always(call, ks, idx, t) ==
    IF call.attempt < max_retries
    THEN [call |-> [call EXCEPT !.pc = "sleeping",
                                !.sleeps = Append(@, Backoff(call.attempt)),
                                !.wake_at = t + Backoff(call.attempt)],
          keys |-> ks, idx |-> idx]
    ELSE BeginAttempt(call, ks, idx, t, call.attempt + 1)

\* if attempt < max_retries - 1: await asyncio.sleep(...); continue
\* otherwise the handler falls out of the try and the loop goes on
SleepOrGoOn(call, ks, idx, t) ==
    IF call.attempt < max_retries - 1
    THEN [call |-> [call EXCEPT !.pc = "sleeping",
                                !.sleeps = Append(@, Backoff(call.attempt)),
                                !.wake_at = t + Backoff(call.attempt)],
          keys |-> ks, idx |-> idx]
    ELSE BeginAttempt(call, ks, idx, t, call.attempt + 1)

\* record_failure calls made for the answer a: one in the branch of the
\* status or in the handler of the exception; for a status other than 200,
\* 429 and 401 a second one, because the HTTPException raised inside the try
\* (line 125) is caught by `except Exception` (line 136), which records a
\* failure again
FailuresReported(a) ==
    IF a = "200" THEN 0 ELSE IF a \in {"429", "401", "timeout", "error"} THEN 1 ELSE 2

\* the records after n calls of load_balancer.record_failure(api_key)
ReportFailures(ks, api_key, t, n) ==
    IF n = 0 THEN ks
    ELSE IF n = 1 THEN record_failure(ks, api_key, t)
    ELSE record_failure(record_failure(ks, api_key, t), api_key, t)

\* the call has received the answer a and made its failure reports
Answered(call, a) ==
    [call EXCEPT !.answers = Append(@, a), !.failures = @ + FailuresReported(a)]

\* lines 96-107
Succeed(call) ==
    [call EXCEPT !.pc = "done", !.outcome = "succeeded", !.status_code = "200",
                 !.api_key = None, !.successes = @ + 1]

\* mutant: a 401 backs off like a 429
HandleResponse_backing_off(call, ks, idx, t, a) ==
    IF a = "200"
    THEN [call |-> Succeed(Answered(call, a)),
          keys |-> record_success(ks, call.api_key, t), idx |-> idx]
    ELSE SleepOrGoOn(Answered(call, a),
                     ReportFailures(ks, call.api_key, t, FailuresReported(a)),
                     idx, t)

\* the coroutine resumes with the answer a to its request and runs to its
\* next await or to its end: 200 returns the result; 401 continues with the
\* next iteration; 429, a timeout, another exception and (through `except
\* Exception`) any other status sleep and continue, or fall out of the try
\* on the last attempt
HandleResponse(call, ks, idx, t, a) ==
    IF a = "200"
    THEN [call |-> Succeed(Answered(call, a)),
          keys |-> record_success(ks, call.api_key, t), idx |-> idx]
    ELSE IF a = "401"
    THEN BeginAttempt(Answered(call, a),
                      ReportFailures(ks, call.api_key, t, FailuresReported(a)),
                      idx, t, call.attempt + 1)
    ELSE SleepOrGoOn(Answered(call, a),
                     ReportFailures(ks, call.api_key, t, FailuresReported(a)),
                     idx, t)

\* the coroutine c has run to its next await or to its end, with the result r
Resumed(c, r) ==
    /\ calls' = [calls EXCEPT ![c] = r.call]
    /\ keys' = r.keys
    /\ last_used_index' = r.idx
    /\ UNCHANGED <<registry, failsSince, streak, reports>>

\* a request arrives: the coroutine starts and runs to its first await
StartCall(c) ==
    /\ calls[c].pc = "idle"
    /\ UNCHANGED now
    /\ Resumed(c, BeginAttempt(calls[c], keys, last_used_index, now, 0))

\* the upstream answers the request in flight
Respond(c, a) ==
    /\ calls[c].pc = "awaiting"
    /\ UNCHANGED now
    /\ Resumed(c, HandleResponse(calls[c], keys, last_used_index, now, a))

\* the clock when the sleep of c ends: no earlier than asked
WakeTime(c) == IF now < calls[c].wake_at THEN calls[c].wake_at ELSE now

\* the sleep ends and the loop goes on
Wake(c) ==
    /\ calls[c].pc = "sleeping"
    /\ now' = WakeTime(c)
    /\ Resumed(c, BeginAttempt(calls[c], keys, last_used_index, WakeTime(c),
                               calls[c].attempt + 1))

\* the clock of SpecCaller moves only by the backoff sleeps
InitCaller ==
    \E s \in CallerScenarios, d \in InitDay : InitLB(s.registry, d, s.calls)

NextCaller ==
    \/ \E c \in DOMAIN calls : StartCall(c)
    \/ \E c \in DOMAIN calls, a \in Responses : Respond(c, a)
    \/ \E c \in DOMAIN calls : Wake(c)

SpecCaller == InitCaller /\ [][NextCaller]_vars

\* The awaits of a coroutine end: client.post returns or raises within the
\* timeout of the client (120 s), and asyncio.sleep returns. Nothing makes a
\* request arrive, so StartCall is not fair.
CallIds == UNION {s.calls : s \in CallerScenarios}

RespondSome(c) == c \in DOMAIN calls /\ \E a \in Responses : Respond(c, a)

WakeSome(c) == c \in DOMAIN calls /\ Wake(c)

FairCaller ==
    \A c \in CallIds : WF_vars(RespondSome(c)) /\ WF_vars(WakeSome(c))

SpecCallerFair == InitCaller /\ [][NextCaller]_vars /\ FairCaller

(***************************************************************************)
(* generate_parallel_images and generate_single_image_with_key             *)
(***************************************************************************)
\* Under SpecBatch calls[0] is the coroutine of generate_parallel_images and
\* calls[i], i >= 1, the i-th task it gathers; its requests field is the
\* batch_size asked.
BatchSizes == (1..MaxBatch) \cup {BATCH_LIMIT + 1}

TooLargeDetail == "Maximum batch size is 10"

NoKeysDetail == "No API keys available"

AllFailedDetail == "All parallel requests failed"

TaskFailedDetail == "API error"

\* lines 160-168 and 192: the keys returned are repeated in a cycle up to
\* batch_size; the i-th task takes the i-th of them
CycleKeys(api_keys, size) ==
    [i \in 1..size |-> api_keys[((i - 1) % Len(api_keys)) + 1]]

\* a task of generate_single_image_with_key, suspended in client.post
NewTask(api_key) ==
    [NewCall EXCEPT !.pc = "awaiting", !.api_key = api_key, !.requests = 1]

\* lines 183-196: one task for each key, all started by asyncio.gather
Gather(batch, api_keys) ==
    [i \in 0..Len(api_keys) |->
        IF i = 0 THEN [batch EXCEPT !.pc = "gathering"] ELSE NewTask(api_keys[i])]

\* lines 158-196, with the result r of get_multiple_available_keys
GatherWith(batch, size, r) ==
    IF r.ret = << >>
    THEN [calls |-> [i \in {0} |-> Raise(batch, "503", NoKeysDetail)],
          keys |-> r.keys, idx |-> r.idx]
    ELSE [calls |-> Gather(batch, CycleKeys(r.ret, size)),
          keys |-> r.keys, idx |-> r.idx]

\* lines 152-196
BeginBatch(batch, ks, idx, t, size) ==
    IF size > BATCH_LIMIT
    THEN [calls |-> [i \in {0} |-> Raise(batch, "400", TooLargeDetail)],
          keys |-> ks, idx |-> idx]
    ELSE GatherWith(batch, size, get_multiple_available_keys(ks, idx, t, size))

\* record_failure calls of generate_single_image_with_key for the answer a:
\* for a status other than 200 one in the else branch (line 298) and one more
\* in the handler (line 304) of the exception that branch raises; for a
\* timeout or another exception the one of the handler
TaskFailuresReported(a) ==
    IF a = "200" THEN 0 ELSE IF a \in StatusCodes THEN 2 ELSE 1

\* lines 284-305: the task returns its result or raises
TaskEnd(task, a) ==
    IF a = "200"
    THEN [task EXCEPT !.pc = "done", !.outcome = "succeeded",
                      !.status_code = "200", !.answers = Append(@, a),
                      !.successes = @ + 1]
    ELSE [task EXCEPT !.pc = "done", !.outcome = "failed",
                      !.detail = TaskFailedDetail, !.answers = Append(@, a),
                      !.failures = @ + TaskFailuresReported(a)]

\* the records after the reports of the task
TaskReports(ks, api_key, t, a) ==
    IF a = "200" THEN record_success(ks, api_key, t)
    ELSE ReportFailures(ks, api_key, t, TaskFailuresReported(a))

\* mutant: the batch succeeds only if every task does
BatchEnd_all(batch, tasks) ==
    IF \A i \in 1..Len(tasks) : tasks[i].outcome = "succeeded"
    THEN [batch EXCEPT !.pc = "done", !.outcome = "succeeded",
                       !.status_code = "200"]
    ELSE Raise(batch, "500", AllFailedDetail)

\* lines 198-227: the results of the tasks are collected; the batch fails
\* when none is a result
BatchEnd(batch, tasks) ==
    IF \E i \in 1..Len(tasks) : tasks[i].outcome = "succeeded"
    THEN [batch EXCEPT !.pc = "done", !.outcome = "succeeded",
                       !.status_code = "200"]
    ELSE Raise(batch, "500", AllFailedDetail)

\* the tasks gathered, in order
Tasks == [i \in 1..(Cardinality(DOMAIN calls) - 1) |-> calls[i]]

\* a request for a batch of size images arrives: the coroutine runs to its
\* await of asyncio.gather, or raises before
BatchStarted(r) ==
    /\ calls' = r.calls
    /\ keys' = r.keys
    /\ last_used_index' = r.idx
    /\ UNCHANGED <<registry, now, failsSince, streak, reports>>

StartBatch(size) ==
    /\ calls[0].pc = "idle"
    /\ BatchStarted(BeginBatch([calls[0] EXCEPT !.requests = size], keys,
                               last_used_index, now, size))

\* the upstream answers the request of the task i
TaskRespond(i, a) ==
    /\ i # 0
    /\ calls[i].pc = "awaiting"
    /\ calls' = [calls EXCEPT ![i] = TaskEnd(@, a)]
    /\ keys' = TaskReports(keys, calls[i].api_key, now, a)
    /\ UNCHANGED <<registry, last_used_index, now, failsSince, streak, reports>>

\* asyncio.gather returns when every task has ended
FinishBatch ==
    /\ calls[0].pc = "gathering"
    /\ \A i \in DOMAIN calls : i # 0 => calls[i].pc = "done"
    /\ calls' = [calls EXCEPT ![0] = BatchEnd(@, Tasks)]
    /\ UNCHANGED <<registry, keys, last_used_index, now, failsSince, streak, reports>>

InitBatch == \E reg \in Registries, d \in InitDay : InitLB(reg, d, {0})

NextBatch ==
    \/ \E size \in BatchSizes : StartBatch(size)
    \/ \E i \in DOMAIN calls, a \in Responses : TaskRespond(i, a)
    \/ FinishBatch

SpecBatch == InitBatch /\ [][NextBatch]_vars

(***************************************************************************)
(* What the claims speak of, stated on the fields of the records           *)
(***************************************************************************)
\* requests counted in the minute (day) window that holds t
MinuteCount(r, t) ==
    IF r.last_reset_minute = t \div MINUTE THEN r.requests_per_minute ELSE 0

DayCount(r, t) ==
    IF r.last_reset_day = t \div DAY THEN r.requests_per_day ELSE 0

InCooldown(r, t) == r.status = "failed" /\ t - r.last_failure_time <= COOLDOWN

AtLimit(r, t) == MinuteCount(r, t) >= IPM \/ DayCount(r, t) >= IPD

Eligible(r, t) == ~InCooldown(r, t) /\ ~AtLimit(r, t)

EligibleKeys == SelectSeq(registry, LAMBDA k : Eligible(keys[k], now))

SelectKey == get_available_key(keys, last_used_index, now)

SelectKeys(count) == get_multiple_available_keys(keys, last_used_index, now, count)

\* the counts the claims are checked for: those the model asks, and the 5 of
\* the scenario
Counts == (1..MaxCount) \cup {5}

SelectStep == GetAvailableKey \/ \E count \in 1..MaxCount : GetMultipleAvailableKeys(count)

(***************************************************************************)
(* C2                                                                      *)
(***************************************************************************)
\* ret is min(count, 2n) identifiers of the n eligible keys, with identifiers
\* reused when count exceeds n
UpToTwiceEligible(count, eligible, ret) ==
    /\ Len(ret) = Min(count, 2 * Len(eligible))
    /\ Range(ret) \subseteq Range(eligible)
    /\ count > Len(eligible) =>
          \E i, j \in 1..Len(ret) : i # j /\ ret[i] = ret[j]
    /\ Len(eligible) = 1 => \A i \in 1..Len(ret) : ret[i] = eligible[1]

\* C2 as stated: whenever at least one key is eligible, selectKeys(count)
\* returns exactly count identifiers, all equal to the eligible key when there
\* is only one.
C2_AsStated ==
    \A count \in Counts :
        Len(EligibleKeys) >= 1 =>
            /\ Len(SelectKeys(count).ret) = count
            /\ Len(EligibleKeys) = 1 =>
                  \A i \in 1..count : SelectKeys(count).ret[i] = EligibleKeys[1]

\* C2 amended: with n >= 1 eligible keys selectKeys(count) returns
\* min(count, 2n) identifiers, each an eligible key, so identifiers are reused
\* when count exceeds n; with a single eligible key the min(count, 2) entries
\* all equal that key.
C2_ReturnsUpToTwiceEligible ==
    \A count \in Counts :
        Len(EligibleKeys) >= 1 =>
            UpToTwiceEligible(count, EligibleKeys, SelectKeys(count).ret)

\* k1 and k2 have reached the limit of the minute, k3 is the only eligible
\* key, and selectKeys(5) returns k3 twice
C2_Witness ==
    /\ registry = ThreeKeys
    /\ keys["k1"].status = "rate_limited"
    /\ keys["k2"].status = "rate_limited"
    /\ EligibleKeys = <<"k3">>
    /\ SelectKeys(5).ret = <<"k3", "k3">>

(***************************************************************************)
(* C4                                                                      *)
(***************************************************************************)
\* C4 as stated: immediately after a recordFailure that is at least the third
\* on the key since its last recordSuccess, the key is Failed.
C4_AsStated ==
    [][\A k \in DOMAIN keys :
          failsSince'[k] >= 3 /\ RecordFailure(k) => keys'[k].status = "failed"]_vars

\* C4 amended: immediately after a recordFailure that is at least the third
\* on the key since its last recordSuccess and since it last left Failed by
\* cooldown, the key is Failed, whatever its counters and status before.
C4_FailedAfterThreeFailures ==
    [][\A k \in DOMAIN keys :
          streak'[k] >= 3 /\ RecordFailure(k) => keys'[k].status = "failed"]_vars

\* a key that reached its daily limit and then failed three times
C4_Witness ==
    \E k \in DOMAIN keys :
        /\ streak[k] = 3
        /\ keys[k].requests_per_day >= IPD
        /\ keys[k].status = "failed"
        /\ keys[k].last_failure_time = now

(***************************************************************************)
(* C5                                                                      *)
(***************************************************************************)
\* C5 as stated: an eligibility check on a Failed key leaves it Active with
\* no consecutive failures once more than 300 s have passed since its last
\* failure, whatever its counters, and leaves it Failed before.
C5_AsStated ==
    [][\A k \in DOMAIN keys :
          keys[k].status = "failed" /\ SelectStep =>
                  IF now - keys[k].last_failure_time > COOLDOWN
                  THEN /\ keys'[k].status = "active"
                       /\ keys'[k].consecutive_failures = 0
                  ELSE keys'[k].status = "failed"]_vars

\* C5 amended: such a check leaves the key with no consecutive failures and
\* no longer Failed: Active when its counters of the current windows are
\* below the limits, RateLimited when one of them is at its limit; before the
\* 300 s have passed the check leaves it Failed with its failures as counted.
C5_CooldownEndsFailed ==
    [][\A k \in DOMAIN keys :
          keys[k].status = "failed" /\ SelectStep =>
                  IF now - keys[k].last_failure_time > COOLDOWN
                  THEN /\ keys'[k].status =
                            IF AtLimit(keys[k], now) THEN "rate_limited"
                            ELSE "active"
                       /\ keys'[k].consecutive_failures = 0
                  ELSE /\ keys'[k].status = "failed"
                       /\ keys'[k].consecutive_failures =
                              keys[k].consecutive_failures]_vars

\* a Failed key at its daily limit whose cooldown is over has been checked:
\* it is RateLimited, and nothing was recorded on it since its last failure
C5_Witness ==
    \E k \in DOMAIN keys :
        /\ keys[k].status = "rate_limited"
        /\ keys[k].consecutive_failures = 0
        /\ failsSince[k] >= 3
        /\ DayCount(keys[k], now) >= IPD
        /\ now - keys[k].last_failure_time > COOLDOWN

(***************************************************************************)
(* C6                                                                      *)
(***************************************************************************)
\* C6: a key whose requests_per_minute is at 2 in the minute window of the
\* clock is refused by can_make_request and returned by no selection, and
\* stays so for as long as the clock stays in that window.
C6_MinuteLimitHolds ==
    [][\A k \in DOMAIN keys :
          MinuteCount(keys[k], now) >= IPM =>
              /\ ~can_make_request(keys[k], now).ok
              /\ k \notin Range(SelectKey.ret)
              /\ \A count \in Counts : k \notin Range(SelectKeys(count).ret)
              /\ now' \div MINUTE = now \div MINUTE =>
                    MinuteCount(keys'[k], now') >= IPM]_vars

\* a key took its second request of the minute one second ago, and a
\* selection has since refused it
C6_Witness ==
    \E k \in DOMAIN keys :
        /\ keys[k].requests_per_minute = IPM
        /\ keys[k].last_request_time = T0 + COOLDOWN
        /\ now = T0 + COOLDOWN + 1
        /\ keys[k].consecutive_failures = 0
        /\ Len(registry) = 2
        /\ last_used_index = 1

(***************************************************************************)
(* C7                                                                      *)
(***************************************************************************)
Fresh(k) == keys[k] = APIKeyInfo

\* C7: no selection returns a key that is Failed within its cooldown or has a
\* counter of the current window at its limit; with k1 and k2 fresh selectKey
\* returns k1 and moves the cursor from 0 to 1, and with k1 Failed and k2
\* eligible it returns k2.
C7_OnlyEligibleReturned ==
    /\ \A k \in Range(SelectKey.ret) : Eligible(keys[k], now)
    /\ \A count \in Counts :
          \A k \in Range(SelectKeys(count).ret) : Eligible(keys[k], now)
    /\ registry = <<"k1", "k2">> =>
          /\ Fresh("k1") /\ Fresh("k2") /\ last_used_index = 0 =>
                SelectKey.ret = <<"k1">> /\ SelectKey.idx = 1
          /\ InCooldown(keys["k1"], now) /\ Eligible(keys["k2"], now) =>
                SelectKey.ret = <<"k2">>

\* the scenario before its last selectKey: k1 was selected (cursor 1) and
\* has failed three times, k2 is untouched
C7_Witness ==
    /\ registry = <<"k1", "k2">>
    /\ last_used_index = 1
    /\ failsSince["k1"] = 3
    /\ InCooldown(keys["k1"], now)
    /\ keys["k2"].requests_per_day = 0
    /\ SelectKey.ret = <<"k2">>

(***************************************************************************)
(* C8                                                                      *)
(***************************************************************************)
\* the keys have the same counts in the windows of the clock
EquallyLoaded ==
    \A a, b \in DOMAIN keys :
        /\ DayCount(keys[a], now) = DayCount(keys[b], now)
        /\ MinuteCount(keys[a], now) = MinuteCount(keys[b], now)

\* C8: with exactly three keys eligible and equally loaded and the cursor at
\* c, three selectKey calls in a row return the keys at rotation positions
\* c mod 3, (c+1) mod 3 and (c+2) mod 3: each key once.
C8_RoundRobin ==
    LET c == last_used_index
        s1 == SelectKey
        s2 == get_available_key(s1.keys, s1.idx, now)
        s3 == get_available_key(s2.keys, s2.idx, now)
    IN  Len(EligibleKeys) = 3 /\ EquallyLoaded =>
          /\ s1.ret = <<EligibleKeys[(c % 3) + 1]>>
          /\ s2.ret = <<EligibleKeys[((c + 1) % 3) + 1]>>
          /\ s3.ret = <<EligibleKeys[((c + 2) % 3) + 1]>>
          /\ {s1.ret[1], s2.ret[1], s3.ret[1]} = Range(EligibleKeys)

\* three keys with one request each today, all in a minute that has passed
\* and none checked since, the cursor at 2
C8_Witness ==
    /\ Len(EligibleKeys) = 3
    /\ EquallyLoaded
    /\ \A k \in DOMAIN keys : DayCount(keys[k], now) = 1
    /\ \A k \in DOMAIN keys : keys[k].last_request_time < now - MINUTE
    /\ \A k \in DOMAIN keys : keys[k].requests_per_minute = 1
    /\ last_used_index = 2

(***************************************************************************)
(* C9                                                                      *)
(***************************************************************************)
\* C9: when no key is eligible, also in an empty registry, selectKey returns
\* None and selectKeys the empty sequence, neither raises, and the cursor
\* stays where it was.
C9_NoneWhenNoKeyEligible ==
    [][Len(EligibleKeys) = 0 =>
          /\ SelectKey.ret = << >> /\ ~SelectKey.raised
          /\ \A count \in Counts :
                SelectKeys(count).ret = << >> /\ ~SelectKeys(count).raised
          /\ SelectStep => last_used_index' = last_used_index]_vars

\* two keys, neither eligible, one of them Failed, the cursor at 1, after a
\* selection found none
C9_Witness ==
    /\ Len(registry) = 2
    /\ last_used_index = 1
    /\ Len(EligibleKeys) = 0
    /\ \E k \in DOMAIN keys : InCooldown(keys[k], now)
    /\ \E k \in DOMAIN keys : keys[k].status = "rate_limited" /\ keys[k].last_reset_minute = now \div MINUTE


(***************************************************************************)
(* C1                                                                      *)
(***************************************************************************)
\* C1 as stated: when a call of generate_image_with_retry receives a status
\* that is neither 200, 429 nor 401, it reports one failure and ends at once
\* as failed: it issues no further request and makes no backoff sleep,
\* whatever the attempt.
C1_AsStated ==
    [][\A c \in DOMAIN calls :
          Respond(c, "500") =>
              /\ calls'[c].pc = "done"
              /\ calls'[c].outcome = "failed"
              /\ calls'[c].failures = calls[c].failures + 1
              /\ calls'[c].requests = calls[c].requests
              /\ calls'[c].sleeps = calls[c].sleeps]_vars

(***************************************************************************)
(* C3                                                                      *)
(***************************************************************************)
\* C3: a call that was answered 429, 429 and then 200 has made exactly three
\* requests and exactly two backoff sleeps, of 1 s then 2 s, has ended
\* Succeeded, and has reported exactly 2 failures and 1 success.
C3_TwoBackoffsThenSuccess ==
    \A c \in DOMAIN calls :
        calls[c].answers = <<"429", "429", "200">> =>
            /\ calls[c].pc = "done"
            /\ calls[c].outcome = "succeeded"
            /\ calls[c].attempt = 2
            /\ calls[c].requests = 3
            /\ calls[c].sleeps = <<1, 2>>
            /\ calls[c].failures = 2
            /\ calls[c].successes = 1

\* the only call on two keys was answered 429, 429, 200; its 200 was the
\* first success of the day on the key that took it
C3_Witness ==
    /\ registry = <<"k1", "k2">>
    /\ calls["c1"].answers = <<"429", "429", "200">>
    /\ calls["c1"].outcome = "succeeded"
    /\ now >= T0 + 3
    /\ \E k \in DOMAIN keys :
          keys[k].requests_per_day = 1 /\ keys[k].last_request_time = now

(***************************************************************************)
(* C10                                                                     *)
(***************************************************************************)
\* no key would be returned by get_available_key on the records ks at t
NoKeyAt(ks, t) == get_available_key(ks, last_used_index, t).ret = << >>

\* the call c has ended with the 503 of capacity, in its attempt n, and has
\* in this step issued no request, reported nothing beyond the f failures of
\* the answer it handled, and made no sleep
EndsWithoutKey(c, n, f) ==
    /\ calls'[c].pc = "done"
    /\ calls'[c].outcome = "failed"
    /\ calls'[c].status_code = "503"
    /\ calls'[c].detail = NoKeyDetail
    /\ calls'[c].attempt = n
    /\ calls'[c].requests = calls[c].requests
    /\ calls'[c].failures = calls[c].failures + f
    /\ calls'[c].successes = calls[c].successes
    /\ calls'[c].sleeps = calls[c].sleeps

\* C10: when get_available_key returns no key at the start of an attempt (the
\* first, one begun after a sleep, or one begun right after a 401), the call
\* ends at once with the 503 of capacity: no request is issued for the
\* attempt, nothing is reported for it, no sleep is made; and a call that has
\* ended does nothing more.
C10_NoKeyEndsCall ==
    [][\A c \in DOMAIN calls :
          /\ StartCall(c) /\ NoKeyAt(keys, now) => EndsWithoutKey(c, 0, 0)
          /\ Wake(c) /\ NoKeyAt(keys, WakeTime(c)) =>
                EndsWithoutKey(c, calls[c].attempt + 1, 0)
          /\ /\ Respond(c, "401")
             /\ calls[c].attempt + 1 < max_retries
             /\ NoKeyAt(record_failure(keys, calls[c].api_key, now), now)
             => EndsWithoutKey(c, calls[c].attempt + 1, 1)
          /\ calls[c].pc = "done" => calls'[c] = calls[c]]_vars

\* a call found no key at its second attempt, after one answer and one sleep
C10_Witness ==
    \E c \in DOMAIN calls :
        /\ calls[c].pc = "done"
        /\ calls[c].detail = NoKeyDetail
        /\ calls[c].attempt = 1
        /\ calls[c].requests = 1
        /\ calls[c].sleeps = <<1>>
        /\ calls[c].failures = 1


(***************************************************************************)
(* C11                                                                     *)
(***************************************************************************)
\* the call c has gone on to its attempt n in this step, without a sleep: it
\* has posted a request with a key, or has found none
GoesOnTo(c, n) ==
    /\ calls'[c].attempt = n
    /\ calls'[c].sleeps = calls[c].sleeps
    /\ \/ /\ calls'[c].pc = "awaiting"
          /\ calls'[c].requests = calls[c].requests + 1
          /\ calls'[c].api_key \in DOMAIN keys
       \/ /\ calls'[c].pc = "done"
          /\ calls'[c].detail = NoKeyDetail
          /\ calls'[c].requests = calls[c].requests

\* the call c has ended exhausted in this step, without a sleep or a request
EndsExhausted(c) ==
    /\ calls'[c].pc = "done"
    /\ calls'[c].outcome = "failed"
    /\ calls'[c].status_code = "503"
    /\ calls'[c].detail = ExhaustedDetail
    /\ calls'[c].sleeps = calls[c].sleeps
    /\ calls'[c].requests = calls[c].requests

\* C11: an attempt n answered 401 reports exactly one failure for the key it
\* used and goes on to attempt n+1 without a backoff sleep; answered on the
\* last attempt (n = max_retries - 1) it ends the call as exhausted.
C11_UnauthorizedGoesOn ==
    [][\A c \in DOMAIN calls :
          Respond(c, "401") =>
              /\ calls'[c].failures = calls[c].failures + 1
              /\ keys'[calls[c].api_key].last_failure_time = now
              /\ IF calls[c].attempt < max_retries - 1
                 THEN GoesOnTo(c, calls[c].attempt + 1)
                 ELSE EndsExhausted(c)]_vars

\* a call answered 401 three times: three requests, no sleep, exhausted
C11_Witness ==
    \E c \in DOMAIN calls :
        /\ calls[c].answers = <<"401", "401", "401">>
        /\ calls[c].requests = 3
        /\ calls[c].sleeps = << >>
        /\ calls[c].failures = 3
        /\ calls[c].detail = ExhaustedDetail

(***************************************************************************)
(* C12                                                                     *)
(***************************************************************************)
\* C12 as stated: a call that ends in failure because of the answers of the
\* upstream (its retries exhausted, or a status other than 200, 429 and 401
\* answered) surfaces the status code of the answer that caused it, not a
\* substituted code.
C12_AsStated ==
    \A c \in DOMAIN calls :
        /\ calls[c].pc = "done"
        /\ calls[c].outcome = "failed"
        /\ calls[c].detail # NoKeyDetail
        /\ calls[c].answers # << >>
        /\ calls[c].answers[Len(calls[c].answers)] \in StatusCodes
        => calls[c].status_code = calls[c].answers[Len(calls[c].answers)]

(***************************************************************************)
(* C13                                                                     *)
(***************************************************************************)
\* the sleeps a call can have made with the defaults: 1 s after attempt 0,
\* 2 s after attempt 1, each only if that attempt backed off
DefaultSleeps == {<< >>, <<1>>, <<2>>, <<1, 2>>}

\* the call has made at most max_retries requests and at most
\* max_retries - 1 sleeps: one after each attempt but the last, of 1 s after
\* attempt 0 and 2 s after attempt 1
WithinRetries(call) ==
    /\ call.requests <= max_retries
    /\ Len(call.answers) <= call.requests
    /\ Len(call.sleeps) <= max_retries - 1
    /\ Len(call.sleeps) <= call.attempt + 1
    /\ call.sleeps \in DefaultSleeps
    /\ 1 \in Range(call.sleeps) => Len(call.answers) >= 1
    /\ 2 \in Range(call.sleeps) => call.attempt >= 1 /\ Len(call.answers) >= 2
    /\ call.pc = "done" => call.outcome \in {"succeeded", "failed"}

\* C13: every call that has started ends, succeeded or failed, whatever the
\* answers of the upstream, and makes at most max_retries requests and at most
\* max_retries - 1 backoff sleeps on the way: with the defaults at most 3
\* requests, and no sleeps but 1 s after attempt 0 and 2 s after attempt 1.
C13_CallTerminates ==
    /\ [](\A c \in DOMAIN calls : WithinRetries(calls[c]))
    /\ \A c \in CallIds :
          (c \in DOMAIN calls /\ calls[c].pc # "idle")
              ~> (c \in DOMAIN calls /\ calls[c].pc = "done")

\* a call has ended after three requests and both sleeps, answered by a
\* timeout, another status and a transport error
C13_Witness ==
    \E c \in DOMAIN calls :
        /\ calls[c].pc = "done"
        /\ calls[c].answers = <<"timeout", "500", "error">>
        /\ calls[c].requests = 3
        /\ calls[c].sleeps = <<1, 2>>
        /\ calls[c].outcome = "failed"


\* the indices of the tasks a batch gathers
TaskIds == DOMAIN calls \ {0}

\* the task has ended and has reported its own outcome to the load balancer
ReportedOwnOutcome(task) ==
    /\ task.pc = "done"
    /\ Len(task.answers) = 1
    /\ task.outcome = "succeeded" <=> task.answers[1] = "200"
    /\ task.outcome = "failed" <=> task.answers[1] # "200"
    /\ task.outcome = "succeeded" => task.successes = 1 /\ task.failures = 0
    /\ task.outcome = "failed" => task.successes = 0 /\ task.failures >= 1

\* C14: a parallel batch that gathers tasks succeeds if and only if at least
\* one of its tasks succeeds and fails, with 500 "All parallel requests
\* failed", only when every task fails; a failed task does not stop its
\* siblings: the batch keeps gathering while any task awaits its answer, and
\* when it ends every task has ended and has reported its own outcome.
C14_BatchSucceedsIffOneDoes ==
    /\ (calls[0].pc = "done" /\ TaskIds # {}) =>
          /\ \A i \in TaskIds : ReportedOwnOutcome(calls[i])
          /\ calls[0].outcome = "succeeded" <=>
                \E i \in TaskIds : calls[i].outcome = "succeeded"
          /\ calls[0].outcome = "failed" <=>
                \A i \in TaskIds : calls[i].outcome = "failed"
          /\ calls[0].outcome = "failed" =>
                calls[0].status_code = "500" /\ calls[0].detail = AllFailedDetail
    /\ (\E i \in TaskIds : calls[i].pc = "awaiting") => calls[0].pc = "gathering"
    /\ \A i \in TaskIds : calls[i].pc = "done" => ReportedOwnOutcome(calls[i])
    /\ TaskIds # {} => Cardinality(TaskIds) = calls[0].requests

C14_Witness ==
    /\ calls[0].pc = "done"
    /\ calls[0].outcome = "succeeded"
    /\ Cardinality(TaskIds) = 3
    /\ calls[1].answers = <<"500">>
    /\ calls[1].outcome = "failed"
    /\ calls[2].answers = <<"200">>
    /\ calls[2].outcome = "succeeded"
    /\ calls[3].answers = <<"timeout">>
    /\ calls[3].outcome = "failed"

\* the step is a report, of a success or of a failure, on api_key
Report(api_key) == RecordSuccess(api_key) \/ RecordFailure(api_key)

\* the records of the keys other than api_key stay as they are
OthersKept(api_key) ==
    /\ DOMAIN keys' = DOMAIN keys
    /\ \A k \in DOMAIN keys : k # api_key => keys'[k] = keys[k]

\* C15: record_success and record_failure with an identifier that is not
\* registered leave the whole state of the LoadBalancer as it is; with a
\* registered identifier they change the record of that key only, never the
\* cursor, the registry or the record of another key.
C15_ReportsTouchOneRecord ==
    [][\A api_key \in Ids :
          Report(api_key) =>
             /\ last_used_index' = last_used_index
             /\ registry' = registry
             /\ OthersKept(api_key)
             /\ api_key \notin DOMAIN keys => keys' = keys
             /\ api_key \in DOMAIN keys => keys'[api_key] # keys[api_key]]_vars

C15_Witness ==
    /\ registry = ThreeKeys
    /\ reports = 2
    /\ last_used_index = 0
    /\ keys["k1"].consecutive_failures = 1
    /\ keys["k2"].requests_per_day = 1
    /\ keys["k3"] = APIKeyInfo

\* the sum of a stored counter over the registered keys, in registry order
RECURSIVE StoredTotal(_, _)
StoredTotal(field, n) ==
    IF n = 0 THEN 0 ELSE keys[registry[n]][field] + StoredTotal(field, n - 1)

\* the registered keys whose stored status is st
WithStatus(st) == {i \in 1..Len(registry) : keys[registry[i]].status = st}

\* the statistics st are those of the records as stored
AsStored(st) ==
    /\ st.total_keys = Len(registry)
    /\ st.active_keys + st.rate_limited_keys + st.failed_keys = st.total_keys
    /\ st.active_keys = Cardinality(WithStatus("active"))
    /\ st.rate_limited_keys = Cardinality(WithStatus("rate_limited"))
    /\ st.failed_keys = Cardinality(WithStatus("failed"))
    /\ st.total_requests_today = StoredTotal("requests_per_day", Len(registry))
    /\ st.total_requests_this_minute =
          StoredTotal("requests_per_minute", Len(registry))

\* C16: in every reachable state the statistics get_stats returns add up,
\* active + rate limited + failed = total = number of registered keys, and
\* their request totals are the sums of the counters as stored; a call of
\* get_stats answers with the statistics of the records as they are, stale
\* statuses and counters included, changes no record and leaves the cursor.
C16_StatsAsStored ==
    /\ [](AsStored(get_stats(keys)))
    /\ [][calls' # calls =>
            /\ keys' = keys
            /\ last_used_index' = last_used_index
            /\ AsStored(calls'["stats"])]_vars

\* the cooldown of k1 is over and its minute has passed, and get_stats has
\* reported it Failed with its stale minute counter
C16_Witness ==
    /\ registry = <<"k1", "k2">>
    /\ now = T0 + COOLDOWN + 1
    /\ keys["k1"].status = "failed"
    /\ keys["k1"].last_failure_time = T0
    /\ keys["k1"].requests_per_minute = 1
    /\ keys["k2"].status = "active"
    /\ calls["stats"] # NewCall
    /\ calls["stats"].failed_keys = 1
    /\ calls["stats"].active_keys = 1
    /\ calls["stats"].total_requests_this_minute = 1
    /\ calls["stats"].total_requests_today = IPD - 1

\* the key a has not been used more than the key b, by the requests of the
\* day and then by those of the minute
NotMoreUsed(a, b) ==
    \/ DayCount(keys[a], now) < DayCount(keys[b], now)
    \/ /\ DayCount(keys[a], now) = DayCount(keys[b], now)
       /\ MinuteCount(keys[a], now) <= MinuteCount(keys[b], now)

\* C17: the key get_available_key returns has the least (requests_per_day,
\* requests_per_minute) among the eligible keys; the cursor only chooses among
\* the keys that tie for the least.
C17_AsStated ==
    \A k \in Range(SelectKey.ret) :
        \A e \in Range(EligibleKeys) : NotMoreUsed(k, e)

\* the attempt of c answered a makes one report for its key: a success for
\* 200, else a failure that adds 1 to consecutive_failures
OneReport(c, a) ==
    IF a = "200"
    THEN /\ calls'[c].successes = calls[c].successes + 1
         /\ calls'[c].failures = calls[c].failures
    ELSE /\ calls'[c].successes = calls[c].successes
         /\ calls'[c].failures = calls[c].failures + 1
         /\ keys'[calls[c].api_key].consecutive_failures =
               keys[calls[c].api_key].consecutive_failures + 1

\* C18: every upstream attempt results in exactly one report to the
\* LoadBalancer for its key, record_success for 200 and one record_failure
\* otherwise, so that consecutive_failures grows by exactly 1 for each failed
\* attempt, whatever the failure: 429, 401, another status, a timeout.
C18_AsStated ==
    [][\A c \in DOMAIN calls : \A a \in Responses :
          (calls[c].pc = "awaiting" /\ Respond(c, a)) => OneReport(c, a)]_vars

\* C19: in every reachable state, calls in flight between the selection of
\* their key and their report included, every key has at most 2 requests
\* recorded in its current minute and at most 400 in its current day.
C19_AsStated ==
    \A k \in DOMAIN keys :
        /\ MinuteCount(keys[k], now) <= IPM
        /\ DayCount(keys[k], now) <= IPD

\* C20: whenever can_make_request returns True for a key, the status of that
\* key is Active at that moment, also for a key that was RateLimited in an
\* earlier window whose counters have been reset since.
C20_AsStated ==
    \A k \in DOMAIN keys :
        can_make_request(keys[k], now).ok =>
            can_make_request(keys[k], now).rec.status = "active"

\* the cooldown of the record r is over at t
CooldownOver(r, t) == r.status = "failed" /\ t - r.last_failure_time > COOLDOWN

\* the place of the key k in the registry
Place(k) == CHOOSE i \in 1..Len(registry) : registry[i] = k

\* the eligible key e comes before the eligible key k in S: it is less used,
\* by the day and then by the minute, or as much used and registered earlier
ComesBefore(e, k) ==
    \/ DayCount(keys[e], now) < DayCount(keys[k], now)
    \/ /\ DayCount(keys[e], now) = DayCount(keys[k], now)
       /\ MinuteCount(keys[e], now) < MinuteCount(keys[k], now)
    \/ /\ DayCount(keys[e], now) = DayCount(keys[k], now)
       /\ MinuteCount(keys[e], now) = MinuteCount(keys[k], now)
       /\ Place(e) < Place(k)

\* the place in S of the key k among the eligible keys el
Rank(el, k) == 1 + Cardinality({e \in Range(el) : ComesBefore(e, k)})

\* S: the eligible keys el in the order of ComesBefore
SortedEligible(el) ==
    [i \in 1..Len(el) |-> CHOOSE k \in Range(el) : Rank(el, k) = i]

\* S[i mod n], positions counted from 0
SortedAt(S, i) == S[(i % Len(S)) + 1]

\* the result r of get_available_key is S[c mod n] with the cursor moved to
\* (c + 1) mod n
ReturnsSortedAtCursor(r, S) ==
    Len(S) >= 1 =>
        /\ r.ret = <<SortedAt(S, last_used_index)>>
        /\ r.idx = (last_used_index + 1) % Len(S)

\* the records ks are those of the state in the fields the claim names
SameCounters(ks) ==
    \A k \in DOMAIN keys :
        /\ ks[k].requests_per_minute = keys[k].requests_per_minute
        /\ ks[k].requests_per_day = keys[k].requests_per_day
        /\ ks[k].last_request_time = keys[k].last_request_time
        /\ ks[k].consecutive_failures = keys[k].consecutive_failures

\* the records ks are those of the state after the refresh at now, and
\* nothing else: no request is counted
OnlyRefreshed(ks) ==
    \A k \in DOMAIN keys :
        /\ ks[k].requests_per_minute = MinuteCount(keys[k], now)
        /\ ks[k].requests_per_day = DayCount(keys[k], now)
        /\ ks[k].last_request_time = keys[k].last_request_time
        /\ ks[k].last_failure_time = keys[k].last_failure_time
        /\ ks[k].consecutive_failures =
              IF CooldownOver(keys[k], now) THEN 0
              ELSE keys[k].consecutive_failures

SelectsAsStated(r, S) == ReturnsSortedAtCursor(r, S) /\ SameCounters(r.keys)

SelectsSortedAtCursor(r, S) ==
    ReturnsSortedAtCursor(r, S) /\ OnlyRefreshed(r.keys)

\* C21 as stated: get_available_key returns S[c mod n], sets the cursor to
\* (c + 1) mod n and changes no counter, last_request_time or
\* consecutive_failures of any key.
C21_AsStated == SelectsAsStated(SelectKey, SortedEligible(EligibleKeys))

\* C21: with n >= 1 eligible keys and cursor c, get_available_key returns
\* S[c mod n], S the eligible keys sorted by (requests_per_day,
\* requests_per_minute) with ties in registration order, and sets the cursor
\* to (c + 1) mod n.  It counts no request: the counts of the current minute
\* and day, last_request_time and last_failure_time of every key stay; what
\* it writes is the refresh, which zeroes the counters of a past window and
\* the consecutive_failures of a Failed key whose cooldown is over.
C21_SelectsSortedAtCursor ==
    SelectsSortedAtCursor(SelectKey, SortedEligible(EligibleKeys))

\* three eligible keys of different usage, k1 the most used, a stale minute
\* counter on k1 and the cursor at 2: S = <<k3, k2, k1>> and S[2] = k1
C21_Witness ==
    /\ registry = ThreeKeys
    /\ now = T0 + COOLDOWN + 1
    /\ last_used_index = 2
    /\ DayCount(keys["k1"], now) = 2
    /\ keys["k1"].requests_per_minute = 2
    /\ DayCount(keys["k2"], now) = 1
    /\ DayCount(keys["k3"], now) = 0
    /\ Len(EligibleKeys) = 3
    /\ SelectKey.ret = <<"k1">>
    /\ SelectKey.idx = 0
    /\ SelectKey.keys["k1"].requests_per_minute = 0

\* the keys at the positions c, c+1, ..., c+m-1 of S, taken modulo n
Walk(S, m) == [i \in 1..m |-> SortedAt(S, last_used_index + i - 1)]

\* the positions walked for count keys: count of them, at most twice the
\* eligible keys
Budget(S, count) == Min(count, 2 * Len(S))

\* the result r of get_multiple_available_keys is the walk of m positions
\* from the cursor, which it moves by m
WalkedFromCursor(r, S, m) ==
    /\ r.ret = Walk(S, m)
    /\ r.idx = (last_used_index + m) % Len(S)

\* every count asked walks S from the cursor
WalksSorted(S) ==
    Len(S) >= 1 =>
        \A count \in Counts :
            WalkedFromCursor(SelectKeys(count), S, Budget(S, count))

\* C22: with n >= 1 eligible keys, cursor c and count >= 1,
\* get_multiple_available_keys(count) returns the keys S[(c + i) mod n] for
\* i = 0, 1, ... in that order, min(count, 2n) of them, and sets the cursor to
\* (c + the number of keys returned) mod n.
C22_WalksSortedFromCursor == WalksSorted(SortedEligible(EligibleKeys))

\* S = <<k3, k2, k1>> and the cursor at 1: five keys asked walk the positions
\* 1, 2, 0, 1, 2 and leave the cursor at 0
C22_Witness ==
    /\ registry = ThreeKeys
    /\ last_used_index = 1
    /\ DayCount(keys["k1"], now) = 2
    /\ DayCount(keys["k2"], now) = 1
    /\ DayCount(keys["k3"], now) = 0
    /\ Len(EligibleKeys) = 3
    /\ SelectKeys(5).ret = <<"k2", "k1", "k3", "k2", "k1">>
    /\ SelectKeys(5).idx = 0

\* C23: in every reachable state a key is Failed if and only if its
\* consecutive_failures is 3 or more; no report, eligibility check or refresh
\* leaves it otherwise.
C23_FailedIffThreeFailures ==
    \A k \in DOMAIN keys :
        keys[k].status = "failed" <=> keys[k].consecutive_failures >= FAILURE_LIMIT

\* k1 is Failed with three failures in a row while k2, with one failure,
\* is not
C23_Witness ==
    /\ registry = <<"k1", "k2">>
    /\ keys["k1"].status = "failed"
    /\ keys["k1"].consecutive_failures = 3
    /\ keys["k2"].status = "active"
    /\ keys["k2"].consecutive_failures = 1

\* the status record_request leaves for the counters m of the minute and d of
\* the day
StatusFor(m, d) == IF m >= IPM \/ d >= IPD THEN "rate_limited" ELSE "active"

\* the record of k after a success reported at now
AfterSuccess(k) ==
    /\ keys'[k].requests_per_minute = MinuteCount(keys[k], now) + 1
    /\ keys'[k].requests_per_day = DayCount(keys[k], now) + 1
    /\ keys'[k].last_request_time = now
    /\ keys'[k].consecutive_failures = 0
    /\ keys'[k].status =
          StatusFor(MinuteCount(keys[k], now) + 1, DayCount(keys[k], now) + 1)

\* C24: record_success on a registered key, whatever its status before, adds
\* exactly 1 to the counters of the current minute and day, sets
\* consecutive_failures to 0 and leaves the key RateLimited if a counter is
\* at its limit after that and Active otherwise; a Failed key so leaves
\* Failed at once, before its cooldown is over.
C24_SuccessRecomputesStatus ==
    [][\A k \in DOMAIN keys :
          (reports' = reports + 1 /\ RecordSuccess(k)) => AfterSuccess(k)]_vars

\* three failures and then a success, all at the same instant: the key is
\* Active within what was its cooldown
C24_Witness ==
    /\ registry = <<"k1">>
    /\ reports = 4
    /\ now = T0
    /\ keys["k1"].last_failure_time = T0
    /\ keys["k1"].consecutive_failures = 0
    /\ keys["k1"].requests_per_day = 1
    /\ keys["k1"].status = "active"

\* C25: a failure reported for a Failed key whose last failure is more than
\* 300 seconds old is counted from the refreshed record: it leaves
\* consecutive_failures = 1 and the key not Failed.
C25_AsStated ==
    [][\A k \in DOMAIN keys :
          (CooldownOver(keys[k], now) /\ RecordFailure(k)) =>
              /\ keys'[k].consecutive_failures = 1
              /\ keys'[k].status # "failed"]_vars

\* the instants at which a record of the state can be accessed
Instants == {now} \cup {t \in TimeLine : t > now}

\* reset_counters_if_needed at t on the record r: a second application changes
\* nothing, each counter is zeroed exactly when its marker is not that of t,
\* the markers are those of t after it, and the times of the last request and
\* of the last failure stay
RefreshedOnce(r, t) ==
    /\ reset_counters_if_needed(reset_counters_if_needed(r, t), t) =
          reset_counters_if_needed(r, t)
    /\ reset_counters_if_needed(r, t).requests_per_minute =
          IF r.last_reset_minute # t \div MINUTE THEN 0 ELSE r.requests_per_minute
    /\ reset_counters_if_needed(r, t).requests_per_day =
          IF r.last_reset_day # t \div DAY THEN 0 ELSE r.requests_per_day
    /\ reset_counters_if_needed(r, t).last_reset_minute = t \div MINUTE
    /\ reset_counters_if_needed(r, t).last_reset_day = t \div DAY
    /\ reset_counters_if_needed(r, t).last_request_time = r.last_request_time
    /\ reset_counters_if_needed(r, t).last_failure_time = r.last_failure_time

\* C26: reset_counters_if_needed is idempotent at a fixed time; it zeroes
\* requests_per_minute exactly when the stored minute marker differs from
\* floor(now / 60) and requests_per_day exactly when the stored day marker
\* differs from floor(now / 86400), updating the marker, and leaves the
\* counter otherwise; it never changes last_request_time or
\* last_failure_time.
C26_RefreshIdempotent ==
    \A k \in DOMAIN keys : \A t \in Instants : RefreshedOnce(keys[k], t)

\* k1 holds the counter of a past minute of the same day: the refresh zeroes
\* the minute and keeps the day
C26_Witness ==
    /\ "k1" \in DOMAIN keys
    /\ now = T0 + COOLDOWN + 1
    /\ keys["k1"].requests_per_minute = 1
    /\ keys["k1"].last_reset_minute = T0 \div MINUTE
    /\ keys["k1"].requests_per_day = IPD - 1
    /\ reset_counters_if_needed(keys["k1"], now).requests_per_minute = 0
    /\ reset_counters_if_needed(keys["k1"], now).requests_per_day = IPD - 1
    /\ reset_counters_if_needed(keys["k1"], now).last_reset_minute = now \div MINUTE
=============================================================================
